---- MODULE Spec2Model ----
(***************************************************************************)
(* Model of src/server.ts: command-line configuration resolution, the      *)
(* one-time startup fetch with its process-wide cache, the one-time        *)
(* browser-open action, and the GET / responder that reads the cache.      *)
(*                                                                         *)
(* Strings are sequences of chunks.  A chunk is a non-empty piece of text; *)
(* the string is the concatenation of its chunks and the empty string is   *)
(* <<>>.  The characters the code inspects one by one ("=", "&", "<", ">", *)
(* the quotes) and the leading "--" of a flag are chunks of their own.     *)
(***************************************************************************)
EXTENDS Integers, Sequences, FiniteSets, TLC

\* ------------------------------------------------------------------ bounds
MaxArgs == 2        \* command-line tokens after argv[1]
MaxJobs == 2        \* records in an array response of the collaborator
MaxRequests == 2    \* GET / requests handled in one run

\* ----------------------------------------------------------------- strings
EmptyStr == <<>>

\* JavaScript truthiness of a string
Truthy(s) == s # EmptyStr

\* String.prototype.includes on chunked strings
Contains(s, part) ==
    \E i \in 0..(Len(s) - Len(part)) : SubSeq(s, i + 1, i + Len(part)) = part

\* src/server.ts:44-51  one chunk through the five replacements
escapeChunk(c) ==
    CASE c = "&" -> "&amp;"
      [] c = "<" -> "&lt;"
      [] c = ">" -> "&gt;"
      [] c = "\"" -> "&quot;"
      [] c = "'" -> "&#039;"
      [] OTHER -> c

\* src/server.ts:44-51
escapeHtml(unsafe) == [i \in 1..Len(unsafe) |-> escapeChunk(unsafe[i])]

\* ------------------------------------------------- configuration resolver
Keys == {"keyword", "location", "dateSincePosted", "limit", "jobType",
         "remoteFilter", "salary", "experienceLevel", "sortBy"}

\* src/server.ts:101
validDateSincePosted == {<<"24hr">>, <<"past Week">>, <<"past Month">>, EmptyStr}
\* src/server.ts:109
validJobTypes == {<<"full time">>, <<"part time">>, <<"contract">>, <<"temporary">>,
                  <<"volunteer">>, <<"internship">>, EmptyStr}
\* src/server.ts:117
validRemoteFilters == {<<"on site">>, <<"remote">>, <<"hybrid">>, EmptyStr}
\* src/server.ts:125
validSalaries == {<<"40000">>, <<"60000">>, <<"80000">>, <<"100000">>, <<"120000">>, EmptyStr}
\* src/server.ts:133
validExperienceLevels == {<<"internship">>, <<"entry level">>, <<"associate">>, <<"senior">>,
                          <<"director">>, <<"executive">>, EmptyStr}
\* the list written like the other five, with the "unspecified" value
validSortBys_WithEmpty == {<<"recent">>, <<"relevant">>, EmptyStr}

\* src/server.ts:141
validSortBys == {<<"recent">>, <<"relevant">>}

\* src/server.ts:94-151  the values the switch accepts for a key
ValidValues(key) ==
    CASE key = "dateSincePosted" -> validDateSincePosted
      [] key = "jobType" -> validJobTypes
      [] key = "remoteFilter" -> validRemoteFilters
      [] key = "salary" -> validSalaries
      [] key = "experienceLevel" -> validExperienceLevels
      [] key = "sortBy" -> validSortBys
      [] OTHER -> {}

FreeFormKeys == {"keyword", "location", "limit"}

\* src/server.ts:164-174
hardcodedDefaultOptions ==
    [keyword |-> <<"Vue.js, Angular">>,
     location |-> <<"london">>,
     dateSincePosted |-> <<"past Week">>,
     limit |-> <<"100">>,
     jobType |-> EmptyStr,
     remoteFilter |-> EmptyStr,
     salary |-> EmptyStr,
     experienceLevel |-> EmptyStr,
     sortBy |-> <<"recent">>]

\* String.prototype.split('='): the pieces between the "=" chunks
RECURSIVE SplitEq(_)
SplitEq(s) ==
    IF \A i \in 1..Len(s) : s[i] # "="
    THEN <<s>>
    ELSE LET p == CHOOSE i \in 1..Len(s) : s[i] = "=" /\ \A j \in 1..(i - 1) : s[j] # "="
         IN <<SubSeq(s, 1, p - 1)>> \o SplitEq(SubSeq(s, p + 1, Len(s)))

\* src/server.ts:87
IsHelp(arg) == arg = <<"--", "help">> \/ arg = <<"-h">>

\* src/server.ts:90
StartsWithDashes(arg) == Len(arg) >= 1 /\ arg[1] = "--"

\* the parser taking an invalid value as a reason to drop the key
ParseToken_InvalidResets(args, arg) ==
    IF ~StartsWithDashes(arg)
    THEN [args |-> args, warned |-> 1]
    ELSE LET pieces == SplitEq(Tail(arg))
             keyStr == pieces[1]
             hasValue == Len(pieces) >= 2
         IN IF ~(Truthy(keyStr) /\ hasValue)
            THEN [args |-> args, warned |-> 1]
            ELSE LET value == pieces[2]
                     key == IF Len(keyStr) = 1 THEN keyStr[1] ELSE "?"
                     set == [k \in (DOMAIN args) \cup {key} |->
                                IF k = key THEN value ELSE args[k]]
                     reset == [k \in (DOMAIN args) \ {key} |-> args[k]]
                 IN IF key \in FreeFormKeys
                    THEN [args |-> set, warned |-> 0]
                    ELSE IF key \in Keys
                         THEN IF value \in ValidValues(key)
                              THEN [args |-> set, warned |-> 0]
                              ELSE [args |-> reset, warned |-> 1]
                         ELSE [args |-> args, warned |-> 1]

\* src/server.ts:90-157  one token that is not --help/-h: the args after it
\* and the number of console.warn calls it makes
ParseToken(args, arg) ==
    IF ~StartsWithDashes(arg)
    THEN [args |-> args, warned |-> 1]
    ELSE LET pieces == SplitEq(Tail(arg))
             keyStr == pieces[1]
             hasValue == Len(pieces) >= 2
         IN IF ~(Truthy(keyStr) /\ hasValue)
            THEN [args |-> args, warned |-> 1]
            ELSE LET value == pieces[2]
                     key == IF Len(keyStr) = 1 THEN keyStr[1] ELSE "?"
                     set == [k \in (DOMAIN args) \cup {key} |->
                                IF k = key THEN value ELSE args[k]]
                 IN IF key \in FreeFormKeys
                    THEN [args |-> set, warned |-> 0]
                    ELSE IF key \in Keys
                         THEN IF value \in ValidValues(key)
                              THEN [args |-> set, warned |-> 0]
                              ELSE [args |-> args, warned |-> 1]
                         ELSE [args |-> args, warned |-> 1]

\* the loop looking for --help/-h in the whole sequence before it processes
\* any token
RECURSIVE ParseFrom_HelpFirst(_, _, _, _)
ParseFrom_HelpFirst(tokens, i, args, warned) ==
    IF \E j \in 1..Len(tokens) : IsHelp(tokens[j])
    THEN [args |-> args, warned |-> warned, exited |-> TRUE]
    ELSE IF i > Len(tokens)
         THEN [args |-> args, warned |-> warned, exited |-> FALSE]
         ELSE LET r == ParseToken(args, tokens[i])
              IN ParseFrom_HelpFirst(tokens, i + 1, r.args, warned + r.warned)

\* src/server.ts:81-160  the loop over process.argv from index 2; exited is
\* TRUE when showHelpAndExit (src/server.ts:54-77) ended the process
RECURSIVE ParseFrom(_, _, _, _)
ParseFrom(tokens, i, args, warned) ==
    IF i > Len(tokens)
    THEN [args |-> args, warned |-> warned, exited |-> FALSE]
    ELSE IF IsHelp(tokens[i])
         THEN [args |-> args, warned |-> warned, exited |-> TRUE]
         ELSE LET r == ParseToken(args, tokens[i])
              IN ParseFrom(tokens, i + 1, r.args, warned + r.warned)

\* src/server.ts:81-160
parseCommandLineArgs(tokens) == ParseFrom(tokens, 1, [k \in {} |-> EmptyStr], 0)

\* src/server.ts:181  { ...hardcodedDefaultOptions, ...cmdLineArgs }
Merge(defaults, args) ==
    [k \in Keys |-> IF k \in DOMAIN args THEN args[k] ELSE defaults[k]]

\* src/server.ts:163-182
getEffectiveQueryOptions(tokens) ==
    LET r == parseCommandLineArgs(tokens)
    IN [options |-> Merge(hardcodedDefaultOptions, r.args),
        warned |-> r.warned,
        exited |-> r.exited]

\* ------------------------------------------------------------ environment
\* process.argv[2..]: the tokens a run can be started with
ArgPool ==
    { <<"--", "help">>,
      <<"--", "keyword", "=", "React">>,
      <<"--", "sortBy", "=", "relevant">>,
      <<"--", "sortBy", "=", "oldest">>,
      <<"verbose">> }

ArgvSet == UNION { [1..n -> ArgPool] : n \in 0..MaxArgs }

\* process.env.PORT: "undefined" stands for an unset variable
EnvPorts == {"undefined", "", "8080"}

\* records the collaborator can return (src/server.ts:16-25)
JobPool ==
    { [position |-> <<"Dev">>, company |-> <<"A", "&", "B">>, location |-> <<"london">>,
       date |-> <<"2025-01-01">>, agoTime |-> <<"1 day ago">>, salary |-> EmptyStr,
       jobUrl |-> <<"https://x/1">>],
      [position |-> <<"<", "b", ">">>, company |-> EmptyStr, location |-> <<"remote">>,
       date |-> EmptyStr, agoTime |-> EmptyStr, salary |-> <<"40000">>,
       jobUrl |-> <<"https://x/2?a=", "\"">>] }

JobArrays == UNION { [1..n -> JobPool] : n \in 0..MaxJobs }

\* values the collaborator's promise can be fulfilled with: an array of
\* records, or something that is not an array (a wrapper object, undefined,
\* null, a string)
Responses ==
    { [type |-> "array", items |-> a] : a \in JobArrays }
    \cup { [type |-> "object", items |-> a] : a \in {<<>>} \cup { <<j>> : j \in JobPool } }
    \cup { [type |-> t, items |-> <<>>] : t \in {"undefined", "null", "string"} }

\* messages an error of the collaborator can carry (EmptyStr: no message)
ErrorMessages == { EmptyStr, <<"Request failed with status code 429">>, <<"<", "timeout", ">">> }

\* reasons the collaborator's promise can be rejected with: an error object
\* with an optional message and an optional response whose status is 429,
\* 500 or missing (0), or a nullish reason (undefined or null)
Rejections ==
    { [type |-> "error", message |-> m, hasResponse |-> FALSE, status |-> 0] :
        m \in ErrorMessages }
    \cup { [type |-> "error", message |-> m, hasResponse |-> TRUE, status |-> st] :
        m \in ErrorMessages, st \in {0, 429, 500} }
    \cup { [type |-> "nullish", message |-> EmptyStr, hasResponse |-> FALSE, status |-> 0] }

NoResponse == [type |-> "none", items |-> <<>>]
NoRejection == [type |-> "none", message |-> EmptyStr, hasResponse |-> FALSE, status |-> 0]

\* ------------------------------------------------------------------- state
VARIABLES
    argv,                    \* process.argv from index 2
    envPORT,                 \* process.env.PORT
    proc,                    \* "init", "bound", "running", "exited", "crashed"
    exitCode,                \* exit status once proc is "exited" or "crashed", else -1
    helpShown,               \* usage text printed by showHelpAndExit
    warnings,                \* console.warn calls made by the resolver so far
    resolutions,             \* calls of getEffectiveQueryOptions so far
    listenPort,              \* port the listener is bound to ("" before binding)
    cachedJobs,              \* src/server.ts:11
    cachedErrorMessage,      \* src/server.ts:12
    isInitialFetchComplete,  \* src/server.ts:13
    queryCalls,              \* invocations of linkedIn.query
    queryOptions,            \* the argument of the last invocation (<<>>: none)
    chain,                   \* position in query().then().catch().finally()
    response,                \* value the collaborator fulfilled with
    rejection,               \* reason the collaborator rejected with
    openCalls,               \* invocations of open()
    openUrl,                 \* the argument of the last invocation (<<>>: none)
    openState,               \* "none", "pending", "opened", "failed"
    requests,                \* GET / requests handled
    lastPage,                \* body sent for the last GET / (<<>>: none)
    reqQuery,                \* req.query of the last GET / (<<>>: no parameters)
    settledReads,            \* GET / requests handled after the fetch settled
    perRequest               \* per-request variant: the locals of each request's handler

vars == <<argv, envPORT, proc, exitCode, helpShown, warnings, resolutions, listenPort,
          cachedJobs, cachedErrorMessage, isInitialFetchComplete, queryCalls, queryOptions,
          chain, response, rejection, openCalls, openUrl, openState, requests, lastPage,
          reqQuery, settledReads, perRequest>>

cacheVars == <<cachedJobs, cachedErrorMessage, isInitialFetchComplete>>
envVars == <<argv, envPORT>>
queryVars == <<queryCalls, queryOptions>>
openVars == <<openCalls, openUrl, openState>>
settleVars == <<response, rejection>>
procVars == <<proc, exitCode, helpShown>>
httpVars == <<requests, lastPage, reqQuery, settledReads>>

\* per-request variant (src/unnamed/part_000:305-335): a request that has
\* not arrived; jobs and errorMessage are the handler's local variables
NoHandler ==
    [state |-> "none", response |-> NoResponse, rejection |-> NoRejection,
     jobs |-> <<>>, errorMessage |-> EmptyStr, queries |-> 0, sends |-> 0, page |-> <<>>]

\* src/server.ts:8  process.env.PORT || 3000
DefaultPort == "3000"
PORT == IF envPORT \in {"undefined", ""} THEN DefaultPort ELSE envPORT

\* src/server.ts:476  `http://localhost:${PORT}`
BaseUrl(port) == <<"http://localhost:", port>>

\* src/server.ts:10-13 and the process before app.listen
Init ==
    /\ argv \in ArgvSet
    /\ envPORT \in EnvPorts
    /\ proc = "init"
    /\ exitCode = -1
    /\ helpShown = FALSE
    /\ warnings = 0
    /\ resolutions = 0
    /\ listenPort = ""
    /\ cachedJobs = <<>>
    /\ cachedErrorMessage = EmptyStr
    /\ isInitialFetchComplete = FALSE
    /\ queryCalls = 0
    /\ queryOptions = <<>>
    /\ chain = "idle"
    /\ response = NoResponse
    /\ rejection = NoRejection
    /\ openCalls = 0
    /\ openUrl = <<>>
    /\ openState = "none"
    /\ requests = 0
    /\ lastPage = <<>>
    /\ reqQuery = <<>>
    /\ settledReads = 0
    /\ perRequest = [r \in 1..MaxRequests |-> NoHandler]

\* ----------------------------------------------------------- page responder
\* `x || fallback` on strings
OrElse(s, fallback) == IF Truthy(s) THEN s ELSE fallback

\* src/server.ts:378-387  one table row
RenderRow(job) ==
    [position |-> escapeHtml(OrElse(job.position, <<"N/A">>)),
     company |-> escapeHtml(OrElse(job.company, <<"N/A">>)),
     location |-> escapeHtml(OrElse(job.location, <<"N/A">>)),
     date |-> escapeHtml(OrElse(job.date, <<"N/A">>)),
     agoTime |-> escapeHtml(OrElse(job.agoTime, <<"N/A">>)),
     salary |-> escapeHtml(OrElse(job.salary, <<"N/A">>)),
     jobUrl |-> escapeHtml(OrElse(job.jobUrl, <<"#">>))]

\* src/server.ts:294-351  the values echoed into the form controls
RenderForm(options) ==
    [keyword |-> escapeHtml(options.keyword),
     location |-> escapeHtml(options.location),
     limit |-> escapeHtml(options.limit),
     dateSincePosted |-> options.dateSincePosted,
     jobType |-> options.jobType,
     remoteFilter |-> options.remoteFilter,
     experienceLevel |-> options.experienceLevel,
     sortBy |-> options.sortBy]

\* the page announcing a fetch that is still running
RenderPage_LoadingBanner(options, jobs, errorMessage) ==
    [status |-> 200,
     banner |-> IF Truthy(errorMessage) THEN <<errorMessage>>
                ELSE IF isInitialFetchComplete THEN <<>> ELSE << <<"Loading jobs...">> >>,
     rows |-> [i \in 1..Len(jobs) |-> RenderRow(jobs[i])],
     form |-> RenderForm(options)]

\* src/server.ts:191-445  the document res.send is given: the error banner
\* (<<>>: no banner), the table rows and the form values
RenderPage(options, jobs, errorMessage) ==
    [status |-> 200,
     banner |-> IF Truthy(errorMessage) THEN <<errorMessage>> ELSE <<>>,
     rows |-> [i \in 1..Len(jobs) |-> RenderRow(jobs[i])],
     form |-> RenderForm(options)]

\* ------------------------------------------------------------ startup fetch
\* the test written as typeof response === 'object'
IsArray_TypeofObject(r) == r.type \in {"array", "object", "null"}

\* src/server.ts:458  Array.isArray(response)
IsArray(r) == r.type = "array"

\* src/server.ts:463
NoJobsMessage == <<"No jobs found or unexpected API response format during initial fetch.">>

\* the test written against the wrong status class
IsRateLimited_ServerError(error) == error.hasResponse /\ error.status >= 500

\* src/server.ts:469  error.response && error.response.status === 429
IsRateLimited(error) == error.hasResponse /\ error.status = 429

\* src/server.ts:470
RateLimitHint == <<" You might have hit a rate limit. Please wait and try again.">>

\* src/server.ts:468
FailedMessage(error) ==
    <<"Failed to fetch jobs during initial startup: ">>
    \o OrElse(error.message, <<"Unknown error">>)
    \o <<". Please check your connection or API limits.">>

\* a handler of the promise chain is queued or running: no I/O callback
\* (request, open() result) runs until the microtask queue is empty
MicrotasksPending == chain \in {"fulfilled", "rejected", "handled", "threw", "unhandled"}

\* ------------------------------------------------------------------ actions
\* src/server.ts:449  app.listen binds PORT
BindPort ==
    /\ proc = "init"
    /\ proc' = "bound"
    /\ listenPort' = PORT
    /\ UNCHANGED <<exitCode, helpShown, warnings, resolutions, chain, lastPage, requests, reqQuery, settledReads,
                   perRequest>>
    /\ UNCHANGED <<envVars, cacheVars, queryVars, settleVars, openVars>>

\* src/server.ts:449  binding fails (port in use): the 'error' event has no
\* listener and ends the process before the callback runs
BindFails ==
    /\ proc = "init"
    /\ proc' = "crashed"
    /\ exitCode' = 1
    /\ UNCHANGED <<helpShown, warnings, resolutions, listenPort, chain, lastPage, requests, reqQuery, settledReads,
                   perRequest>>
    /\ UNCHANGED <<envVars, cacheVars, queryVars, settleVars, openVars>>

\* the listen callback opening the browser itself, next to the query
ListenCallback_OpensEarly ==
    /\ proc = "bound"
    /\ LET r == getEffectiveQueryOptions(argv)
       IN /\ resolutions' = resolutions + 1
          /\ warnings' = warnings + r.warned
          /\ IF r.exited
             THEN /\ proc' = "exited"
                  /\ exitCode' = 0
                  /\ helpShown' = TRUE
                  /\ UNCHANGED <<queryVars, chain, openVars>>
             ELSE /\ proc' = "running"
                  /\ queryCalls' = queryCalls + 1
                  /\ queryOptions' = r.options
                  /\ chain' = "pending"
                  /\ openCalls' = openCalls + 1
                  /\ openUrl' = BaseUrl(PORT)
                  /\ openState' = "pending"
                  /\ UNCHANGED <<exitCode, helpShown>>
    /\ UNCHANGED <<listenPort, lastPage, requests, reqQuery, settledReads,
                   perRequest>>
    /\ UNCHANGED <<envVars, cacheVars, settleVars>>

\* src/server.ts:449-456  the listen callback: resolve the configuration
\* (which may print the usage text and exit) and invoke the query
ListenCallback ==
    /\ proc = "bound"
    /\ LET r == getEffectiveQueryOptions(argv)
       IN /\ resolutions' = resolutions + 1
          /\ warnings' = warnings + r.warned
          /\ IF r.exited
             THEN /\ proc' = "exited"
                  /\ exitCode' = 0
                  /\ helpShown' = TRUE
                  /\ UNCHANGED <<queryVars, chain>>
             ELSE /\ proc' = "running"
                  /\ queryCalls' = queryCalls + 1
                  /\ queryOptions' = r.options
                  /\ chain' = "pending"
                  /\ UNCHANGED <<exitCode, helpShown>>
    /\ UNCHANGED <<listenPort, lastPage, requests, reqQuery, settledReads,
                   perRequest>>
    /\ UNCHANGED <<envVars, cacheVars, settleVars, openVars>>

\* the collaborator fulfils the promise query() returned
QueryFulfils ==
    /\ proc = "running"
    /\ chain = "pending"
    /\ \E r \in Responses : response' = r
    /\ chain' = "fulfilled"
    /\ UNCHANGED <<rejection, warnings, resolutions, listenPort, lastPage, requests, reqQuery, settledReads,
                   perRequest>>
    /\ UNCHANGED <<envVars, procVars, cacheVars, queryVars, openVars>>

\* the collaborator rejects the promise query() returned
QueryRejects ==
    /\ proc = "running"
    /\ chain = "pending"
    /\ \E e \in Rejections : rejection' = e
    /\ chain' = "rejected"
    /\ UNCHANGED <<response, warnings, resolutions, listenPort, lastPage, requests, reqQuery, settledReads,
                   perRequest>>
    /\ UNCHANGED <<envVars, procVars, cacheVars, queryVars, openVars>>

\* .then marking the fetch complete itself when it stores the records
ThenHandler_MarksComplete ==
    /\ proc = "running"
    /\ chain = "fulfilled"
    /\ IF IsArray(response)
       THEN /\ cachedJobs' = response.items
            /\ isInitialFetchComplete' = TRUE
            /\ UNCHANGED cachedErrorMessage
       ELSE /\ cachedErrorMessage' = NoJobsMessage
            /\ UNCHANGED <<cachedJobs, isInitialFetchComplete>>
    /\ chain' = "handled"
    /\ UNCHANGED <<warnings, resolutions, listenPort, lastPage, requests, reqQuery,
                   settledReads, perRequest>>
    /\ UNCHANGED <<envVars, procVars, queryVars, settleVars, openVars>>

\* .then salvaging the records of a response that is not an array
ThenHandler_SalvagesItems ==
    /\ proc = "running"
    /\ chain = "fulfilled"
    /\ IF IsArray(response)
       THEN /\ cachedJobs' = response.items
            /\ UNCHANGED cachedErrorMessage
       ELSE /\ cachedErrorMessage' = NoJobsMessage
            /\ cachedJobs' = response.items
    /\ chain' = "handled"
    /\ UNCHANGED <<isInitialFetchComplete, warnings, resolutions, listenPort, lastPage, requests, reqQuery, settledReads,
                   perRequest>>
    /\ UNCHANGED <<envVars, procVars, queryVars, settleVars, openVars>>

\* .then dropping the records that have no company
ThenHandler_Filtered ==
    /\ proc = "running"
    /\ chain = "fulfilled"
    /\ IF IsArray(response)
       THEN /\ cachedJobs' = SelectSeq(response.items, LAMBDA j : Truthy(j.company))
            /\ UNCHANGED cachedErrorMessage
       ELSE /\ cachedErrorMessage' = NoJobsMessage
            /\ UNCHANGED cachedJobs
    /\ chain' = "handled"
    /\ UNCHANGED <<isInitialFetchComplete, warnings, resolutions, listenPort, lastPage, requests, reqQuery, settledReads,
                   perRequest>>
    /\ UNCHANGED <<envVars, procVars, queryVars, settleVars, openVars>>

\* src/server.ts:457-465  .then
ThenHandler ==
    /\ proc = "running"
    /\ chain = "fulfilled"
    /\ IF IsArray(response)
       THEN /\ cachedJobs' = response.items
            /\ UNCHANGED cachedErrorMessage
       ELSE /\ cachedErrorMessage' = NoJobsMessage
            /\ UNCHANGED cachedJobs
    /\ chain' = "handled"
    /\ UNCHANGED <<isInitialFetchComplete, warnings, resolutions, listenPort, lastPage, requests, reqQuery, settledReads,
                   perRequest>>
    /\ UNCHANGED <<envVars, procVars, queryVars, settleVars, openVars>>

\* src/server.ts:466-472  .catch; reading error.message of a nullish reason
\* throws a TypeError before the assignment, and the chain stays rejected
CatchHandler ==
    /\ proc = "running"
    /\ chain = "rejected"
    /\ IF rejection.type = "nullish"
       THEN /\ chain' = "threw"
            /\ UNCHANGED <<cachedJobs, cachedErrorMessage>>
       ELSE /\ cachedErrorMessage' =
                  FailedMessage(rejection)
                  \o (IF IsRateLimited(rejection) THEN RateLimitHint ELSE EmptyStr)
            /\ chain' = "handled"
            /\ UNCHANGED cachedJobs
    /\ UNCHANGED <<isInitialFetchComplete, warnings, resolutions, listenPort, lastPage, requests, reqQuery, settledReads,
                   perRequest>>
    /\ UNCHANGED <<envVars, procVars, queryVars, settleVars, openVars>>

\* .finally opening the browser only when the fetch left no error
FinallyHandler_SkipsOnError ==
    /\ proc = "running"
    /\ chain \in {"handled", "threw"}
    /\ isInitialFetchComplete' = TRUE
    /\ IF Truthy(cachedErrorMessage)
       THEN UNCHANGED openVars
       ELSE /\ openCalls' = openCalls + 1
            /\ openUrl' = BaseUrl(PORT)
            /\ openState' = "pending"
    /\ chain' = IF chain = "handled" THEN "done" ELSE "unhandled"
    /\ UNCHANGED <<cachedJobs, cachedErrorMessage, warnings, resolutions, listenPort,
                   lastPage, requests, reqQuery, settledReads,
                   perRequest>>
    /\ UNCHANGED <<envVars, procVars, queryVars, settleVars>>

\* src/server.ts:473-479  .finally: set the flag and invoke open()
FinallyHandler ==
    /\ proc = "running"
    /\ chain \in {"handled", "threw"}
    /\ isInitialFetchComplete' = TRUE
    /\ openCalls' = openCalls + 1
    /\ openUrl' = BaseUrl(PORT)
    /\ openState' = "pending"
    /\ chain' = IF chain = "handled" THEN "done" ELSE "unhandled"
    /\ UNCHANGED <<cachedJobs, cachedErrorMessage, warnings, resolutions, listenPort,
                   lastPage, requests, reqQuery, settledReads,
                   perRequest>>
    /\ UNCHANGED <<envVars, procVars, queryVars, settleVars>>

\* the promise .finally returned is rejected and nothing handles it: the
\* runtime either only warns (Node 14) or ends the process with status 1
\* (Node 15 and later)
UnhandledRejection ==
    /\ proc = "running"
    /\ chain = "unhandled"
    /\ chain' = "done"
    /\ \/ UNCHANGED <<proc, exitCode>>
       \/ proc' = "crashed" /\ exitCode' = 1
    /\ UNCHANGED <<helpShown, warnings, resolutions, listenPort, lastPage, requests, reqQuery, settledReads,
                   perRequest>>
    /\ UNCHANGED <<envVars, cacheVars, queryVars, settleVars, openVars>>

\* src/server.ts:477  open() resolved: logged
OpenSucceeds ==
    /\ proc = "running"
    /\ ~MicrotasksPending
    /\ openState = "pending"
    /\ openState' = "opened"
    /\ UNCHANGED <<openCalls, openUrl, warnings, resolutions, listenPort, chain,
                   lastPage, requests, reqQuery, settledReads,
                   perRequest>>
    /\ UNCHANGED <<envVars, procVars, cacheVars, queryVars, settleVars>>

\* open() rejected and the failure ending the process
OpenFails_Exits ==
    /\ proc = "running"
    /\ ~MicrotasksPending
    /\ openState = "pending"
    /\ openState' = "failed"
    /\ proc' = "crashed"
    /\ exitCode' = 1
    /\ UNCHANGED <<openCalls, openUrl, warnings, resolutions, listenPort, chain,
                   lastPage, requests, reqQuery, settledReads,
                   perRequest, helpShown>>
    /\ UNCHANGED <<envVars, cacheVars, queryVars, settleVars>>

\* src/server.ts:478  open() rejected: logged
OpenFails ==
    /\ proc = "running"
    /\ ~MicrotasksPending
    /\ openState = "pending"
    /\ openState' = "failed"
    /\ UNCHANGED <<openCalls, openUrl, warnings, resolutions, listenPort, chain,
                   lastPage, requests, reqQuery, settledReads,
                   perRequest>>
    /\ UNCHANGED <<envVars, procVars, cacheVars, queryVars, settleVars>>

\* the URL query parameters a GET / request can carry (req.query): none, or
\* the ones the page's filter form submits
RequestQueries ==
    { <<>>,
      [keyword |-> <<"Python">>, sortBy |-> <<"relevant">>] }

\* GET / retrying the fetch when it finds the cache empty
GetRoot_RetriesWhileEmpty ==
    /\ proc = "running"
    /\ ~MicrotasksPending
    /\ requests < MaxRequests
    /\ \E q \in RequestQueries : reqQuery' = q
    /\ settledReads' = IF chain = "done" THEN settledReads + 1 ELSE settledReads
    /\ LET r == getEffectiveQueryOptions(argv)
       IN /\ resolutions' = resolutions + 1
          /\ warnings' = warnings + r.warned
          /\ IF r.exited
             THEN /\ proc' = "exited"
                  /\ exitCode' = 0
                  /\ helpShown' = TRUE
                  /\ UNCHANGED <<requests, lastPage, queryVars>>
             ELSE /\ requests' = requests + 1
                  /\ lastPage' = RenderPage(r.options, cachedJobs, cachedErrorMessage)
                  /\ IF cachedJobs = <<>> /\ ~Truthy(cachedErrorMessage)
                     THEN /\ queryCalls' = queryCalls + 1
                          /\ queryOptions' = r.options
                     ELSE UNCHANGED queryVars
                  /\ UNCHANGED procVars
    /\ UNCHANGED <<perRequest, listenPort, chain>>
    /\ UNCHANGED <<envVars, cacheVars, settleVars, openVars>>

\* GET / showing the error once and clearing it, as a flash message
GetRoot_ConsumesError ==
    /\ proc = "running"
    /\ ~MicrotasksPending
    /\ requests < MaxRequests
    /\ \E q \in RequestQueries : reqQuery' = q
    /\ settledReads' = IF chain = "done" THEN settledReads + 1 ELSE settledReads
    /\ LET r == getEffectiveQueryOptions(argv)
       IN /\ resolutions' = resolutions + 1
          /\ warnings' = warnings + r.warned
          /\ IF r.exited
             THEN /\ proc' = "exited"
                  /\ exitCode' = 0
                  /\ helpShown' = TRUE
                  /\ UNCHANGED <<requests, lastPage, cachedErrorMessage>>
             ELSE /\ requests' = requests + 1
                  /\ lastPage' = RenderPage(r.options, cachedJobs, cachedErrorMessage)
                  /\ cachedErrorMessage' = EmptyStr
                  /\ UNCHANGED procVars
    /\ UNCHANGED <<perRequest, listenPort, chain, cachedJobs, isInitialFetchComplete>>
    /\ UNCHANGED <<envVars, queryVars, settleVars, openVars>>

\* GET / echoing the filter values of the request into the form
GetRoot_ReadsQuery ==
    /\ proc = "running"
    /\ ~MicrotasksPending
    /\ requests < MaxRequests
    /\ \E q \in RequestQueries : reqQuery' = q
    /\ settledReads' = IF chain = "done" THEN settledReads + 1 ELSE settledReads
    /\ LET r == getEffectiveQueryOptions(argv)
       IN /\ resolutions' = resolutions + 1
          /\ warnings' = warnings + r.warned
          /\ IF r.exited
             THEN /\ proc' = "exited"
                  /\ exitCode' = 0
                  /\ helpShown' = TRUE
                  /\ UNCHANGED <<requests, lastPage>>
             ELSE /\ requests' = requests + 1
                  /\ lastPage' = RenderPage(Merge(r.options, reqQuery'),
                                            cachedJobs, cachedErrorMessage)
                  /\ UNCHANGED procVars
    /\ UNCHANGED <<perRequest, listenPort, chain>>
    /\ UNCHANGED <<envVars, cacheVars, queryVars, settleVars, openVars>>

\* GET / fetching again, as a per-request handler would
GetRoot_Requeries ==
    /\ proc = "running"
    /\ ~MicrotasksPending
    /\ requests < MaxRequests
    /\ \E q \in RequestQueries : reqQuery' = q
    /\ settledReads' = IF chain = "done" THEN settledReads + 1 ELSE settledReads
    /\ LET r == getEffectiveQueryOptions(argv)
       IN /\ resolutions' = resolutions + 1
          /\ warnings' = warnings + r.warned
          /\ IF r.exited
             THEN /\ proc' = "exited"
                  /\ exitCode' = 0
                  /\ helpShown' = TRUE
                  /\ UNCHANGED <<requests, lastPage, queryVars>>
             ELSE /\ requests' = requests + 1
                  /\ lastPage' = RenderPage(r.options, cachedJobs, cachedErrorMessage)
                  /\ queryCalls' = queryCalls + 1
                  /\ queryOptions' = r.options
                  /\ UNCHANGED procVars
    /\ UNCHANGED <<perRequest, listenPort, chain>>
    /\ UNCHANGED <<envVars, cacheVars, settleVars, openVars>>

\* src/server.ts:185-446  GET /: resolve the configuration again for the
\* form and send the page rendered from the cache
GetRoot ==
    /\ proc = "running"
    /\ ~MicrotasksPending
    /\ requests < MaxRequests
    /\ \E q \in RequestQueries : reqQuery' = q
    /\ settledReads' = IF chain = "done" THEN settledReads + 1 ELSE settledReads
    /\ LET r == getEffectiveQueryOptions(argv)
       IN /\ resolutions' = resolutions + 1
          /\ warnings' = warnings + r.warned
          /\ IF r.exited
             THEN /\ proc' = "exited"
                  /\ exitCode' = 0
                  /\ helpShown' = TRUE
                  /\ UNCHANGED <<requests, lastPage>>
             ELSE /\ requests' = requests + 1
                  /\ lastPage' = RenderPage(r.options, cachedJobs, cachedErrorMessage)
                  /\ UNCHANGED procVars
    /\ UNCHANGED <<perRequest, listenPort, chain>>
    /\ UNCHANGED <<envVars, cacheVars, queryVars, settleVars, openVars>>

Next ==
    \/ BindPort
    \/ BindFails
    \/ ListenCallback
    \/ QueryFulfils
    \/ QueryRejects
    \/ ThenHandler
    \/ CatchHandler
    \/ FinallyHandler
    \/ UnhandledRejection
    \/ OpenSucceeds
    \/ OpenFails
    \/ GetRoot

Spec == Init /\ [][Next]_vars

\* ------------------------------------------------ resolver specification
\* tokens for the claims about the resolver alone: every shape the parser
\* tells apart, with valid, invalid, empty and "="-carrying values
ResolverArgPool ==
    { <<"--", "help">>,
      <<"-h">>,
      <<"--", "keyword", "=", "React">>,
      <<"--", "keyword", "=", "a", "=", "b">>,
      <<"--", "keyword", "=">>,
      <<"--", "location", "=", "Remote">>,
      <<"--", "limit", "=", "10">>,
      <<"--", "dateSincePosted", "=", "24hr">>,
      <<"--", "jobType", "=", "contract">>,
      <<"--", "jobType", "=", "gig">>,
      <<"--", "sortBy", "=", "relevant">>,
      <<"--", "sortBy", "=", "oldest">>,
      <<"--", "sortBy", "=">>,
      <<"--", "sortBy", "=", "relevant", "=", "x">>,
      <<"--", "colour", "=", "red">>,
      <<"--", "keyword">>,
      <<"--", "=", "x">>,
      <<"verbose">> }

ResolverArgvSet == UNION { [1..n -> ResolverArgPool] : n \in 0..MaxArgs }

\* the process before app.listen, started with any of these token sequences
ResolverInit ==
    /\ argv \in ResolverArgvSet
    /\ envPORT \in EnvPorts
    /\ proc = "init"
    /\ exitCode = -1
    /\ helpShown = FALSE
    /\ warnings = 0
    /\ resolutions = 0
    /\ listenPort = ""
    /\ cachedJobs = <<>>
    /\ cachedErrorMessage = EmptyStr
    /\ isInitialFetchComplete = FALSE
    /\ queryCalls = 0
    /\ queryOptions = <<>>
    /\ chain = "idle"
    /\ response = NoResponse
    /\ rejection = NoRejection
    /\ openCalls = 0
    /\ openUrl = <<>>
    /\ openState = "none"
    /\ requests = 0
    /\ lastPage = <<>>
    /\ reqQuery = <<>>
    /\ settledReads = 0
    /\ perRequest = [r \in 1..MaxRequests |-> NoHandler]

\* start-up up to the point where the resolved options are handed to query()
ResolverNext ==
    \/ BindPort
    \/ ListenCallback

ResolverSpec == ResolverInit /\ [][ResolverNext]_vars

\* the event loop runs every queued handler of the promise chain
FairSpec ==
    /\ Spec
    /\ WF_vars(ThenHandler)
    /\ WF_vars(CatchHandler)
    /\ WF_vars(FinallyHandler)

\* ------------------------------------------------------ per-request variant
\* The second server of src/unnamed/part_000 (lines 179-627): app.listen only
\* logs, and every GET / calls query() itself and sends the page from
\* .finally.  Its parser (part_000:226-280) has no --help exit, so the tokens
\* only shape the options and the form, which are left out here.
VariantArgvSet == { <<>>, << <<"--", "help">> >> }

\* what the collaborator answers a request's query with
VariantResponses ==
    { [type |-> "array", items |-> <<>>], [type |-> "object", items |-> <<>>] }
    \cup { [type |-> "array", items |-> <<j>>] : j \in JobPool }

VariantRejections ==
    { [type |-> "error", message |-> <<"<", "timeout", ">">>, hasResponse |-> FALSE, status |-> 0],
      [type |-> "error", message |-> <<"Request failed with status code 429">>,
       hasResponse |-> TRUE, status |-> 429],
      [type |-> "nullish", message |-> EmptyStr, hasResponse |-> FALSE, status |-> 0] }

\* part_000:323
VariantNoJobsMessage == <<"No jobs found or unexpected API response format.">>

\* part_000:328
VariantFailedMessage(error) ==
    <<"Failed to fetch jobs: ">>
    \o OrElse(error.message, <<"Unknown error">>)
    \o <<". Please try again later.">>

\* part_000:335-619  the document res.send is given
VariantRenderPage(jobs, errorMessage) ==
    [status |-> 200,
     banner |-> IF Truthy(errorMessage) THEN <<errorMessage>> ELSE <<>>,
     rows |-> [i \in 1..Len(jobs) |-> RenderRow(jobs[i])]]

\* a handler of some request's promise chain is queued or running
VariantMicrotasksPending ==
    \E r \in 1..MaxRequests :
        perRequest[r].state \in {"fulfilled", "rejected", "handled", "threw", "unhandled"}

VariantInit ==
    /\ argv \in VariantArgvSet
    /\ envPORT \in EnvPorts
    /\ proc = "init"
    /\ exitCode = -1
    /\ helpShown = FALSE
    /\ warnings = 0
    /\ resolutions = 0
    /\ listenPort = ""
    /\ cachedJobs = <<>>
    /\ cachedErrorMessage = EmptyStr
    /\ isInitialFetchComplete = FALSE
    /\ queryCalls = 0
    /\ queryOptions = <<>>
    /\ chain = "idle"
    /\ response = NoResponse
    /\ rejection = NoRejection
    /\ openCalls = 0
    /\ openUrl = <<>>
    /\ openState = "none"
    /\ requests = 0
    /\ lastPage = <<>>
    /\ reqQuery = <<>>
    /\ settledReads = 0
    /\ perRequest = [r \in 1..MaxRequests |-> NoHandler]

\* the variables the variant has no counterpart for
mainVars == <<argv, envPORT, helpShown, warnings, resolutions, listenPort, cachedJobs,
              cachedErrorMessage, isInitialFetchComplete, queryCalls, queryOptions, chain,
              response, rejection, openCalls, openUrl, openState, requests, lastPage,
              reqQuery, settledReads>>

\* part_000:624-626  the listen callback only logs
VariantListenCallback ==
    /\ proc = "bound"
    /\ proc' = "running"
    /\ UNCHANGED <<exitCode, perRequest, mainVars>>

\* part_000:305-316  a request arrives: the handler declares its locals and
\* calls query()
VariantGetRoot(r) ==
    /\ proc = "running"
    /\ ~VariantMicrotasksPending
    /\ perRequest[r].state = "none"
    /\ \A q \in 1..(r - 1) : perRequest[q].state # "none"
    /\ perRequest' = [perRequest EXCEPT ![r].state = "pending", ![r].queries = @ + 1]
    /\ UNCHANGED <<proc, exitCode, mainVars>>

\* the collaborator fulfils the promise of request r
VariantQueryFulfils(r) ==
    /\ proc = "running"
    /\ ~VariantMicrotasksPending
    /\ perRequest[r].state = "pending"
    /\ \E resp \in VariantResponses :
          perRequest' = [perRequest EXCEPT ![r].state = "fulfilled", ![r].response = resp]
    /\ UNCHANGED <<proc, exitCode, mainVars>>

\* the collaborator rejects the promise of request r
VariantQueryRejects(r) ==
    /\ proc = "running"
    /\ ~VariantMicrotasksPending
    /\ perRequest[r].state = "pending"
    /\ \E e \in VariantRejections :
          perRequest' = [perRequest EXCEPT ![r].state = "rejected", ![r].rejection = e]
    /\ UNCHANGED <<proc, exitCode, mainVars>>

\* part_000:317-325  .then
VariantThenHandler(r) ==
    /\ proc = "running"
    /\ perRequest[r].state = "fulfilled"
    /\ perRequest' =
          IF IsArray(perRequest[r].response)
          THEN [perRequest EXCEPT ![r].state = "handled",
                                  ![r].jobs = perRequest[r].response.items]
          ELSE [perRequest EXCEPT ![r].state = "handled",
                                  ![r].errorMessage = VariantNoJobsMessage]
    /\ UNCHANGED <<proc, exitCode, mainVars>>

\* the error message kept in one variable shared by all handlers
VariantCatchHandler_SharedMessage(r) ==
    /\ proc = "running"
    /\ perRequest[r].state = "rejected"
    /\ perRequest' =
          IF perRequest[r].rejection.type = "nullish"
          THEN [perRequest EXCEPT ![r].state = "threw"]
          ELSE [q \in 1..MaxRequests |->
                  [perRequest[q] EXCEPT
                     !.state = IF q = r THEN "handled" ELSE @,
                     !.errorMessage =
                         VariantFailedMessage(perRequest[r].rejection)
                         \o (IF IsRateLimited(perRequest[r].rejection)
                             THEN RateLimitHint ELSE EmptyStr)]]
    /\ UNCHANGED <<proc, exitCode, mainVars>>

\* part_000:326-332  .catch; a nullish reason makes it throw
VariantCatchHandler(r) ==
    /\ proc = "running"
    /\ perRequest[r].state = "rejected"
    /\ perRequest' =
          IF perRequest[r].rejection.type = "nullish"
          THEN [perRequest EXCEPT ![r].state = "threw"]
          ELSE [perRequest EXCEPT
                  ![r].state = "handled",
                  ![r].errorMessage =
                      VariantFailedMessage(perRequest[r].rejection)
                      \o (IF IsRateLimited(perRequest[r].rejection)
                          THEN RateLimitHint ELSE EmptyStr)]
    /\ UNCHANGED <<proc, exitCode, mainVars>>

\* part_000:333-620  .finally: res.send
VariantFinallyHandler(r) ==
    /\ proc = "running"
    /\ perRequest[r].state \in {"handled", "threw"}
    /\ perRequest' =
          [perRequest EXCEPT
             ![r].state = IF perRequest[r].state = "handled" THEN "sent" ELSE "unhandled",
             ![r].sends = @ + 1,
             ![r].page = VariantRenderPage(perRequest[r].jobs, perRequest[r].errorMessage)]
    /\ UNCHANGED <<proc, exitCode, mainVars>>

\* the rejection left by a throwing .catch is handled by nothing: the
\* runtime warns, or ends the process with status 1
VariantUnhandledRejection(r) ==
    /\ proc = "running"
    /\ perRequest[r].state = "unhandled"
    /\ perRequest' = [perRequest EXCEPT ![r].state = "sent"]
    /\ \/ UNCHANGED <<proc, exitCode>>
       \/ proc' = "crashed" /\ exitCode' = 1
    /\ UNCHANGED mainVars

VariantNext ==
    \/ BindPort
    \/ BindFails
    \/ VariantListenCallback
    \/ \E r \in 1..MaxRequests : VariantGetRoot(r)
    \/ \E r \in 1..MaxRequests : VariantQueryFulfils(r)
    \/ \E r \in 1..MaxRequests : VariantQueryRejects(r)
    \/ \E r \in 1..MaxRequests : VariantThenHandler(r)
    \/ \E r \in 1..MaxRequests : VariantCatchHandler(r)
    \/ \E r \in 1..MaxRequests : VariantFinallyHandler(r)
    \/ \E r \in 1..MaxRequests : VariantUnhandledRejection(r)

VariantSpec == VariantInit /\ [][VariantNext]_vars

\* ------------------------------------------------------------- properties
\* the .then or .catch handler of the startup fetch has run
Settled == chain \in {"handled", "threw", "unhandled", "done"}

Pending == <<cachedJobs, cachedErrorMessage>> = <<<<>>, EmptyStr>>

\* C1: the collaborator's query is invoked at most once in a run, and a step
\* that handles a GET / request never invokes it.
QueryAtMostOnce ==
    /\ [](queryCalls <= 1)
    /\ [][requests' # requests => queryCalls' = queryCalls]_vars

\* requests were handled before and after settlement and the query ran once
QueryAtMostOnceWitness ==
    /\ queryCalls = 1
    /\ requests >= 1
    /\ chain = "done"
    /\ lastPage # <<>>

\* C2: the cache leaves its pending value ([] and '') exactly once, in the
\* step in which the startup fetch settles, and is never changed afterwards.
CacheWrittenExactlyOnce ==
    /\ [](Settled => ~Pending)
    /\ [][<<cachedJobs, cachedErrorMessage>>' # <<cachedJobs, cachedErrorMessage>>
            => chain \in {"fulfilled", "rejected"}]_vars
    /\ [][Settled => <<cachedJobs, cachedErrorMessage>>' = <<cachedJobs, cachedErrorMessage>>]_vars

\* C3: after an array response the cache holds exactly that array, in order
\* and with its duplicates, and no error message.
ArrayStoredVerbatim ==
    (Settled /\ response.type = "array")
        => (cachedJobs = response.items /\ cachedErrorMessage = EmptyStr)

\* an array with a duplicated record and a record without company was stored
ArrayStoredVerbatimWitness ==
    /\ chain = "done"
    /\ response.type = "array"
    /\ Len(response.items) >= 2
    /\ response.items[1] = response.items[2]
    /\ ~Truthy(response.items[1].company)
    /\ cachedJobs = response.items

\* C4: after a response that is not an array the outcome is failed with the
\* fixed message and the cached sequence is still empty.
NonArrayIsFailed ==
    (Settled /\ response.type \in {"object", "undefined", "null", "string"})
        => (cachedErrorMessage = NoJobsMessage /\ cachedJobs = <<>>)

\* a wrapper object that carries records was answered with the fixed message
NonArrayIsFailedWitness ==
    /\ chain = "done"
    /\ response.type = "object"
    /\ response.items # <<>>
    /\ cachedErrorMessage = NoJobsMessage

\* C5: after a rejection whose error carries response.status 429 the cached
\* message contains the collaborator's message and the rate-limit hint.
RateLimitHinted ==
    (Settled /\ rejection.type = "error" /\ rejection.hasResponse /\ rejection.status = 429)
        => /\ Contains(cachedErrorMessage, rejection.message)
           /\ Contains(cachedErrorMessage, RateLimitHint)

\* a 429 rejection with a message of its own has been handled
RateLimitHintedWitness ==
    /\ chain = "done"
    /\ rejection.type = "error"
    /\ rejection.hasResponse
    /\ rejection.status = 429
    /\ Truthy(rejection.message)
    /\ Contains(cachedErrorMessage, rejection.message)

\* C6: after any rejection the outcome is failed: the cached message is not
\* empty and contains the collaborator's message, and the cached sequence is
\* empty.
RejectionIsFailed ==
    (Settled /\ rejection.type # "none")
        => /\ Truthy(cachedErrorMessage)
           /\ Contains(cachedErrorMessage, rejection.message)
           /\ cachedJobs = <<>>

\* C7: the cached sequence and the cached message are never both non-empty.
JobsAndErrorExclusive == ~(cachedJobs # <<>> /\ Truthy(cachedErrorMessage))

\* both kinds of settled outcome occur: this one holds records and no message
JobsAndErrorExclusiveWitness ==
    /\ chain = "done"
    /\ cachedJobs # <<>>
    /\ cachedErrorMessage = EmptyStr
    /\ requests >= 1

\* C8: after settlement the cached sequence or the cached message is
\* non-empty; both are empty only while the fetch is pending.
SettledIsDistinguishable == Settled => ~Pending

OpenEventuallyAtBaseUrl ==
    (chain \in {"fulfilled", "rejected"})
        ~> (openCalls = 1 /\ openUrl = BaseUrl(listenPort))

\* the browser was opened at the configured port after a rejection
OpenEventuallyAtBaseUrlWitness ==
    /\ openCalls = 1
    /\ rejection.type = "error"
    /\ listenPort = "8080"
    /\ openUrl = <<"http://localhost:", "8080">>

\* C11: a failed open() is only logged: the step changes neither the cache,
\* the completion flag nor the process, nothing is retried (one open, one
\* query), and the process stays up with no handler pending, so GET / is
\* still answered afterwards.
OpenFailureOnlyLogged ==
    /\ [][(openState = "pending" /\ openState' = "failed")
            => UNCHANGED <<cachedJobs, cachedErrorMessage, isInitialFetchComplete,
                           queryCalls, openCalls, proc, exitCode>>]_vars
    /\ [](openState = "failed"
            => (openCalls = 1 /\ queryCalls = 1 /\ proc = "running" /\ ~MicrotasksPending))
    /\ [][(openState = "failed" /\ requests' # requests)
            => (lastPage' = RenderPage(queryOptions, cachedJobs, cachedErrorMessage)
                /\ lastPage'.status = 200)]_vars

\* the browser could not be opened and a request was answered with the
\* cached outcome
OpenFailureOnlyLoggedWitness ==
    /\ openState = "failed"
    /\ proc = "running"
    /\ requests >= 1
    /\ lastPage # <<>>
    /\ lastPage.rows # <<>>
    /\ isInitialFetchComplete

\* whether a token sequence holds --help or -h
HasHelp(tokens) == \E i \in 1..Len(tokens) : IsHelp(tokens[i])

\* C17: with --help or -h anywhere in the tokens the process prints the
\* usage text and ends with exit code 0, and in that run the query is never
\* invoked and the browser never opened.
HelpExitsBeforeFetch ==
    /\ HasHelp(argv) => (queryCalls = 0 /\ openCalls = 0)
    /\ (HasHelp(argv) /\ proc \in {"exited", "crashed"}) => (helpShown /\ exitCode = 0)

\* C19: the configuration is resolved once per process: a step that handles
\* a GET / request resolves nothing and emits no warning.
ResolutionRunsOnce ==
    /\ [](resolutions <= 1)
    /\ [][requests' # requests => (resolutions' = resolutions /\ warnings' = warnings)]_vars

\* C20: a GET / handled while the fetch is pending is answered at once with
\* status 200, no rows and no banner, and the step leaves the pending fetch,
\* the cache, the query and the browser-open untouched.
EarlyRequestSeesEmptyCache ==
    [][(chain = "pending" /\ requests' # requests)
         => /\ lastPage'.status = 200
            /\ lastPage'.rows = <<>>
            /\ lastPage'.banner = <<>>
            /\ chain' = "pending"
            /\ UNCHANGED <<cacheVars, settleVars, queryVars, openVars, procVars>>]_vars

\* a request was answered with the empty page before the fetch settled, and
\* the fetch then settled with records
EarlyRequestSeesEmptyCacheWitness ==
    /\ requests >= 1
    /\ lastPage # <<>>
    /\ lastPage.rows = <<>>
    /\ chain = "done"
    /\ cachedJobs # <<>>

\* --------------------------------------------- properties of the resolver
\* the listen callback has resolved the options and handed them to query()
Resolved == proc = "running" /\ resolutions >= 1

\* src/server.ts:31-37  the enumerations of the QueryOptions type
QueryOptionsType(key) ==
    CASE key = "dateSincePosted" -> {<<"24hr">>, <<"past Week">>, <<"past Month">>, EmptyStr}
      [] key = "jobType" -> {<<"full time">>, <<"part time">>, <<"contract">>, <<"temporary">>,
                             <<"volunteer">>, <<"internship">>, EmptyStr}
      [] key = "remoteFilter" -> {<<"on site">>, <<"remote">>, <<"hybrid">>, EmptyStr}
      [] key = "salary" -> {<<"40000">>, <<"60000">>, <<"80000">>, <<"100000">>, <<"120000">>,
                            EmptyStr}
      [] key = "experienceLevel" -> {<<"internship">>, <<"entry level">>, <<"associate">>,
                                     <<"senior">>, <<"director">>, <<"executive">>, EmptyStr}
      [] key = "sortBy" -> {<<"recent">>, <<"relevant">>}
      [] OTHER -> {}

EnumKeys == Keys \ FreeFormKeys

\* a token of the shape --key=value with a non-empty key
IsFlagToken(arg) == Len(arg) >= 3 /\ arg[1] = "--" /\ arg[2] # "=" /\ arg[3] = "="
TokenKey(arg) == arg[2]
\* the value in full: everything after the first "="
TokenValue(arg) == SubSeq(arg, 4, Len(arg))

\* the three kinds of bad token
IsMalformed(arg) == ~IsHelp(arg) /\ ~IsFlagToken(arg)
IsUnknownKey(arg) == IsFlagToken(arg) /\ TokenKey(arg) \notin Keys
IsOutOfEnum(arg) ==
    /\ IsFlagToken(arg)
    /\ TokenKey(arg) \in EnumKeys
    /\ TokenValue(arg) \notin QueryOptionsType(TokenKey(arg))
IsBadToken(arg) == IsMalformed(arg) \/ IsUnknownKey(arg) \/ IsOutOfEnum(arg)

\* a token that validly overrides field k
IsValidOverride(arg, k) ==
    IsFlagToken(arg) /\ TokenKey(arg) = k /\ k \in Keys /\ ~IsOutOfEnum(arg)

\* the default set as the specification lists it
DefaultSet ==
    [keyword |-> <<"Vue.js, Angular">>, location |-> <<"london">>,
     dateSincePosted |-> <<"past Week">>, limit |-> <<"100">>, jobType |-> EmptyStr,
     remoteFilter |-> EmptyStr, salary |-> EmptyStr, experienceLevel |-> EmptyStr,
     sortBy |-> <<"recent">>]

\* C12: with no tokens the resolved options are exactly the default set, and
\* for any tokens every field without a valid override keeps its default.
DefaultsKept ==
    Resolved =>
        /\ argv = <<>> => queryOptions = DefaultSet
        /\ \A k \in Keys :
              (\A i \in 1..Len(argv) : ~IsValidOverride(argv[i], k))
                  => queryOptions[k] = DefaultSet[k]

\* C13: a valid token --key=value that is the only token for its key makes
\* the resolved field equal to value in full.
ValidOverrideTaken ==
    Resolved =>
        \A i \in 1..Len(argv) : \A k \in Keys :
            (/\ IsValidOverride(argv[i], k)
             /\ \A j \in 1..Len(argv) :
                   (j # i /\ IsFlagToken(argv[j])) => TokenKey(argv[j]) # k)
                => queryOptions[k] = TokenValue(argv[i])

\* C18: the resolved options have all nine fields, every enumerated field
\* holds a member of its enumeration, and sortBy is never ''.
ResolvedFieldsInType ==
    Resolved =>
        /\ DOMAIN queryOptions = Keys
        /\ \A k \in EnumKeys : queryOptions[k] \in QueryOptionsType(k)
        /\ queryOptions["sortBy"] # EmptyStr

\* options were resolved from tokens that offer '' for sortBy and an unknown
\* job type
ResolvedFieldsInTypeWitness ==
    /\ Resolved
    /\ \E i \in 1..Len(argv) : argv[i] = <<"--", "sortBy", "=">>
    /\ \E i \in 1..Len(argv) : argv[i] = <<"--", "jobType", "=", "gig">>
    /\ queryOptions["sortBy"] = <<"recent">>

\* the largest member of a non-empty set of indices
MaxOf(S) == CHOOSE m \in S : \A n \in S : n <= m

TokenValueHead(arg) ==
    LET v == TokenValue(arg)
        eqs == {p \in 1..Len(v) : v[p] = "="}
    IN IF eqs = {} THEN v
       ELSE SubSeq(v, 1, (CHOOSE p \in eqs : \A q \in eqs : p <= q) - 1)

\* an enumerated field's token whose value, read up to a further "=", is
\* outside the enumeration
IsRejectedEnum(arg) ==
    /\ IsFlagToken(arg)
    /\ TokenKey(arg) \in EnumKeys
    /\ TokenValueHead(arg) \notin QueryOptionsType(TokenKey(arg))

\* a token for field k whose value, read the same way, is acceptable
IsAcceptedFor(arg, k) ==
    /\ IsFlagToken(arg)
    /\ TokenKey(arg) = k
    /\ k \in Keys
    /\ ~IsRejectedEnum(arg)

BadTokensInert ==
    (~HasHelp(argv) /\ proc \notin {"init", "bound"}) =>
        /\ Resolved
        /\ DOMAIN queryOptions = Keys
        /\ queryOptions =
              getEffectiveQueryOptions(SelectSeq(argv, LAMBDA t : ~IsBadToken(t))).options
        /\ warnings = Cardinality({i \in 1..Len(argv) : IsBadToken(argv[i])})

\* the tokens with positions i and i+1 exchanged
SwapAt(tokens, i) ==
    [j \in 1..Len(tokens) |->
        IF j = i THEN tokens[i + 1] ELSE IF j = i + 1 THEN tokens[i] ELSE tokens[j]]

\* C16: the resolved field is the value of the last valid token for its key,
\* and exchanging neighbouring valid tokens of different keys does not
\* change the result.
LastWriteWins ==
    Resolved =>
        /\ \A k \in Keys :
              LET val == {i \in 1..Len(argv) : IsValidOverride(argv[i], k)}
              IN val # {} => queryOptions[k] = TokenValue(argv[MaxOf(val)])
        /\ \A i \in 1..(Len(argv) - 1) :
              (/\ \E k \in Keys : IsValidOverride(argv[i], k)
               /\ \E k \in Keys : IsValidOverride(argv[i + 1], k)
               /\ TokenKey(argv[i]) # TokenKey(argv[i + 1]))
                  => getEffectiveQueryOptions(SwapAt(argv, i)).options = queryOptions

\* ------------------------------------------------------ page responder reads
\* C21: two GET / requests handled after the fetch has settled return the
\* same job rows and the same error banner, and a step that handles a
\* request changes neither the cache nor any other state of the fetch, the
\* browser-open or the listener.
ReadsIdempotent ==
    /\ [][(requests' # requests /\ settledReads >= 1)
            => (/\ settledReads' = settledReads + 1
                /\ lastPage'.rows = lastPage.rows
                /\ lastPage'.banner = lastPage.banner)]_vars
    /\ [][requests' # requests
            => UNCHANGED <<cacheVars, queryVars, settleVars, openVars, chain,
                           listenPort, procVars>>]_vars

ReadsIdempotentWitness ==
    /\ settledReads >= 2
    /\ lastPage # <<>>
    /\ lastPage.rows # <<>>

\* C22: the page sent for a request is the one rendered from the command
\* line and the cached outcome whatever URL query parameters the request
\* carries, and the parameters passed to the collaborator are the ones
\* resolved from the command line whatever requests were received.
RequestContentIgnored ==
    /\ [][requests' # requests
            => (/\ lastPage' = RenderPage(getEffectiveQueryOptions(argv).options,
                                         cachedJobs, cachedErrorMessage)
                /\ UNCHANGED queryVars)]_vars
    /\ [](queryCalls >= 1 => queryOptions = getEffectiveQueryOptions(argv).options)

RequestContentIgnoredWitness ==
    /\ requests >= 1
    /\ reqQuery # <<>>
    /\ reqQuery.keyword = <<"Python">>
    /\ lastPage.form.keyword = <<"React">>
    /\ lastPage.form.sortBy = <<"recent">>
    /\ lastPage.rows # <<>>

\* ------------------------------------------------------ documented defaults
\* no token of the sequence has the key location
NoLocationFlag(tokens) ==
    \A i \in 1..Len(tokens) : ~(IsFlagToken(tokens[i]) /\ TokenKey(tokens[i]) = "location")

\* C23: with no --location flag the options handed to the collaborator have
\* the empty string as location (a global search).
LocationDefaultsGlobal ==
    (Resolved /\ NoLocationFlag(argv)) => queryOptions.location = EmptyStr

\* ---------------------------------------------------- failures on the page
\* the fetch ended in a failed outcome: a rejection, or a response that is
\* not an array
FailedOutcome ==
    rejection.type # "none" \/ (response.type # "none" /\ ~IsArray(response))

\* C24: every GET / after a failed outcome is answered with status 200, one
\* banner carrying cachedErrorMessage and no rows; after a fulfilled outcome
\* the page has no banner; and no failure of the collaborator ends the
\* process.
FailureSurfacedAsBanner ==
    /\ [][(requests' # requests /\ chain = "done" /\ FailedOutcome)
            => (/\ lastPage'.status = 200
                /\ Truthy(cachedErrorMessage)
                /\ lastPage'.banner = <<cachedErrorMessage>>
                /\ lastPage'.rows = <<>>)]_vars
    /\ [][(requests' # requests /\ chain = "done" /\ ~FailedOutcome)
            => lastPage'.banner = <<>>]_vars
    /\ [](FailedOutcome => proc = "running")

\* ------------------------------------------------------- a fetch that hangs
\* C25: while the collaborator's call has not settled the cache keeps its
\* pending value, isInitialFetchComplete is false, open() has not been
\* invoked and query() has been invoked once; the only steps taken are the
\* collaborator settling and GET / requests, each answered with the empty
\* page; so a call that never settles leaves all this so forever.
HangIsUnbounded ==
    /\ [](chain = "pending"
            => (/\ Pending
                /\ ~isInitialFetchComplete
                /\ openCalls = 0 /\ openState = "none"
                /\ queryCalls = 1
                /\ proc = "running" /\ ~MicrotasksPending))
    /\ [][chain = "pending"
            => \/ (chain' \in {"fulfilled", "rejected"} /\ settleVars' # settleVars
                                                      /\ UNCHANGED <<cacheVars, openVars, queryVars>>)
               \/ (/\ chain' = "pending"
                   /\ requests' = requests + 1
                   /\ lastPage'.status = 200
                   /\ lastPage'.rows = <<>>
                   /\ lastPage'.banner = <<>>
                   /\ UNCHANGED <<cacheVars, openVars, queryVars, settleVars>>)]_vars

\* the fetch is still pending after every request of the run was answered
HangIsUnboundedWitness ==
    /\ chain = "pending"
    /\ requests = MaxRequests
    /\ lastPage # <<>>
    /\ lastPage.rows = <<>>
    /\ openCalls = 0

\* ------------------------------------------------------- the rate-limit hint
\* the .catch handler has had its turn on a rejection
RejectionHandled == rejection.type # "none" /\ Settled

\* C26: after a rejection whose error has no response or a status other
\* than 429, cachedErrorMessage contains the error's message ('Unknown
\* error' when it has none) and not the rate-limit hint; and a GET / after a
\* 429 rejection never shows a banner without the hint.
HintOnlyForRateLimit ==
    /\ []((RejectionHandled /\ ~IsRateLimited(rejection))
            => (/\ Contains(cachedErrorMessage, OrElse(rejection.message, <<"Unknown error">>))
                /\ ~Contains(cachedErrorMessage, RateLimitHint)))
    /\ [][(requests' # requests /\ IsRateLimited(rejection))
            => (lastPage'.banner = <<>> \/ Contains(lastPage'.banner[1], RateLimitHint))]_vars

\* ------------------------------------------- per-request variant: isolation
\* the handlers of request r have run
VariantAnswered(r) == perRequest[r].state \in {"sent", "unhandled"}

\* the outcome of request r's own query is a failure
VariantOwnFailure(r) ==
    \/ perRequest[r].rejection.type # "none"
    \/ (perRequest[r].response.type # "none" /\ ~IsArray(perRequest[r].response))

\* C27: in the per-request variant every request that has arrived has
\* invoked query() exactly once; a response is sent at most once, exactly
\* when the handlers of the request's own settled query have run; and the
\* page sent is made of the request's own outcome alone: its rows are the
\* records of its own array response, and it has a banner only if its own
\* query failed, carrying its own error's message.
PerRequestIsolated ==
    \A r \in 1..MaxRequests :
        LET h == perRequest[r]
        IN /\ h.state # "none" => h.queries = 1
           /\ h.state = "none" => h.queries = 0
           /\ h.sends = (IF VariantAnswered(r) THEN 1 ELSE 0)
           /\ VariantAnswered(r) =>
                 /\ h.response.type # "none" \/ h.rejection.type # "none"
                 /\ h.page.status = 200
                 /\ h.page.rows = (IF IsArray(h.response)
                                    THEN [i \in 1..Len(h.response.items) |->
                                            RenderRow(h.response.items[i])]
                                    ELSE <<>>)
                 /\ h.page.banner # <<>> =>
                       /\ VariantOwnFailure(r)
                       /\ h.rejection.type = "error"
                             => Contains(h.page.banner[1], h.rejection.message)

\* one request failed and showed its banner, another was answered with its
\* own records and no banner
PerRequestIsolatedWitness ==
    \E r, q \in 1..MaxRequests :
        /\ r # q
        /\ VariantAnswered(r) /\ perRequest[r].page.banner # <<>>
        /\ perRequest[r].rejection.type = "error"
        /\ VariantAnswered(q) /\ perRequest[q].page.rows # <<>>
        /\ perRequest[q].page.banner = <<>>

FirstHelp(tokens) ==
    CHOOSE i \in 1..Len(tokens) :
        IsHelp(tokens[i]) /\ \A j \in 1..(i - 1) : ~IsHelp(tokens[j])

\* a token the parser warns about
IsWarnedToken(arg) == IsMalformed(arg) \/ IsUnknownKey(arg) \/ IsRejectedEnum(arg)

RawChars == {"<", ">", "\"", "'"}

HasRaw(s) == \E i \in 1..Len(s) : s[i] \in RawChars

\* C30: no page sent holds a raw less-than, greater-than, double-quote or
\* single-quote character in a place filled from collaborator or
\* command-line data: the fields of every row, the text of the error banner,
\* and the keyword, location and limit form values.
NoRawMarkup ==
    lastPage # <<>> =>
        /\ \A i \in 1..Len(lastPage.rows) :
              \A f \in DOMAIN lastPage.rows[i] : ~HasRaw(lastPage.rows[i][f])
        /\ \A i \in 1..Len(lastPage.banner) : ~HasRaw(lastPage.banner[i])
        /\ \A k \in FreeFormKeys : ~HasRaw(lastPage.form[k])

====
